---- MODULE Spec2Model ----
(***************************************************************************)
(* Model of backend/scratch.py: the TF-IDF / cosine-similarity pipeline    *)
(* (build_inverted_index, compute_idf, compute_doc_norms,                  *)
(* accumulate_dot_scores, compute_cossim_for_webnovel), the id mapping     *)
(* tables filled by tokenize_fanfics / tokenize_webnovels, and the edit    *)
(* distance search.                                                        *)
(*                                                                         *)
(* Number representation.  math.log2 is modelled in fixed point with one   *)
(* decimal digit (Log2x10).  A Euclidean norm sqrt(v) is represented by    *)
(* its radicand v, and a similarity score/(sqrt(q)*sqrt(d)) by the pair    *)
(* <<score, q*d>>; the pair with denominator 0 is the float nan (the       *)
(* numerator is then 0 as well, see Sim).  Python dicts are functions;     *)
(* where the iteration order of a dict matters (doc_scores, the query's    *)
(* word counts) the insertion order is kept next to it as a sequence.      *)
(***************************************************************************)
EXTENDS Integers, Sequences, FiniteSets, TLC

VARIABLES pc,            \* position in the pipeline of main()
          msgs,          \* tokenized reference documents, msgs[i+1] = tokens of document i
          inv_idx,       \* fanfic_inverted_index
          min_df,        \* compute_idf threshold
          max_df_ratio,  \* compute_idf threshold, a ratio <<numerator, denominator>>
          idf,           \* fanfic_idf
          norms,         \* fanfic_norms (radicands)
          webnovel_toks, \* the query of the last compute_cossim_for_webnovel call
          unique_toks,   \* the order in which list(set(webnovel_toks)) came out
          result         \* what compute_cossim_for_webnovel returned

VARIABLES fic_id_to_index,         \* module-level dict
          index_to_fic_id,         \* module-level dict
          webnovel_title_to_index, \* module-level dict
          index_to_webnovel_title, \* module-level dict
          input_fanfics,           \* argument of the last tokenize_fanfics call
          input_webnovels,         \* argument of the last tokenize_webnovels call
          fanfics_tokenized,       \* what the last tokenize_fanfics call returned
          webnovels_tokenized,     \* what the last tokenize_webnovels call returned
          fanfic_calls,            \* number of tokenize_fanfics calls so far
          webnovel_calls           \* number of tokenize_webnovels calls so far

VARIABLES ed_pc,       \* "start", "dist" after edit_distance, "searched" after the search
          ed_query,    \* query string, a sequence of characters
          ed_message,  \* message string of edit_distance
          ed_msgs,     \* candidates of edit_distance_search, records with a text field
          ed_dist,     \* what edit_distance returned
          ed_result    \* what edit_distance_search returned

VARIABLES query_word_counts, \* the dict compute_cossim_for_webnovel passed to score_func
          raw_scores         \* the doc_scores that score_func returned to it

VARIABLES sims_webnovels, \* webnovels_tokenized argument of the last build_sims_cos call
          sims_orders,    \* for each of them, the order list(set(...)) gave its tokens
          webnovel_sims   \* what build_sims_cos returned

pipeVars == <<pc, msgs, inv_idx, min_df, max_df_ratio, idf, norms,
              webnovel_toks, unique_toks, result>>

tokVars == <<fic_id_to_index, index_to_fic_id, webnovel_title_to_index,
             index_to_webnovel_title, input_fanfics, input_webnovels,
             fanfics_tokenized, webnovels_tokenized, fanfic_calls, webnovel_calls>>

edVars == <<ed_pc, ed_query, ed_message, ed_msgs, ed_dist, ed_result>>

scoreVars == <<query_word_counts, raw_scores>>

simsVars == <<sims_webnovels, sims_orders, webnovel_sims>>

vars == <<pipeVars, tokVars, edVars, scoreVars, simsVars>>

----------------------------------------------------------------------------
(* Bounds *)

MaxDocs == 2
MaxToks == 2
MaxQueryToks == 2
MaxRankDocs == 11

(* Program constants *)

K == 10

----------------------------------------------------------------------------
(* Helpers *)

Range(s) == {s[i] : i \in DOMAIN s}

Min(a, b) == IF a <= b THEN a ELSE b

SeqsUpTo(S, n) == UNION {[1..k -> S] : k \in 0..n}

\* every order a set can be iterated in
Orders(S) == {s \in [1..Cardinality(S) -> S] : Range(s) = S}

EmptyDict == [x \in {} |-> 0]

\* s[:n]
Take(s, n) == SubSeq(s, 1, Min(n, Len(s)))

----------------------------------------------------------------------------
(* build_inverted_index *)

\* as IndexTok, but without the first_inst test: every occurrence appends
IndexTokDup(st, msg, tok) ==
    IF tok \notin DOMAIN st.iid
    THEN [iid |-> st.iid @@ (tok :> << <<msg, 1>> >>),
          first_inst |-> st.first_inst @@ (tok :> 0)]
    ELSE [iid |-> [st.iid EXCEPT ![tok] = Append(@, <<msg, 1>>)],
          first_inst |-> st.first_inst @@ (tok :> Len(st.iid[tok]))]

\* as IndexTok, but a repeated token never raises the count
IndexTokNoCount(st, msg, tok) ==
    IF tok \notin DOMAIN st.iid
    THEN [iid |-> st.iid @@ (tok :> << <<msg, 1>> >>),
          first_inst |-> st.first_inst @@ (tok :> 0)]
    ELSE IF tok \notin DOMAIN st.first_inst
         THEN [iid |-> [st.iid EXCEPT ![tok] = Append(@, <<msg, 1>>)],
               first_inst |-> st.first_inst @@ (tok :> Len(st.iid[tok]))]
         ELSE st

\* the body of the loop over a document's tokens: st = [iid, first_inst]
IndexTok(st, msg, tok) ==
    IF tok \notin DOMAIN st.iid
    THEN [iid |-> st.iid @@ (tok :> << <<msg, 1>> >>),
          first_inst |-> st.first_inst @@ (tok :> 0)]
    ELSE IF tok \notin DOMAIN st.first_inst
         THEN [iid |-> [st.iid EXCEPT ![tok] = Append(@, <<msg, 1>>)],
               first_inst |-> st.first_inst @@ (tok :> Len(st.iid[tok]))]
         ELSE LET at == st.first_inst[tok] + 1
                  curr_count == st.iid[tok][at][2]
              IN  [iid |-> [st.iid EXCEPT ![tok][at] = <<msg, curr_count + 1>>],
                   first_inst |-> st.first_inst]

RECURSIVE IndexToks(_, _, _, _)
\* for tok in toks, from position k on
IndexToks(st, msg, toks, k) ==
    IF k > Len(toks) THEN st
    ELSE IndexToks(IndexTok(st, msg, toks[k]), msg, toks, k + 1)

RECURSIVE IndexMsgs(_, _, _)
\* for msg in range(0, len(msgs)), from document msg on
IndexMsgs(iid, ms, msg) ==
    IF msg >= Len(ms) THEN iid
    ELSE IndexMsgs(IndexToks([iid |-> iid, first_inst |-> EmptyDict],
                             msg, ms[msg + 1], 1).iid,
                   ms, msg + 1)

build_inverted_index(ms) == IndexMsgs(EmptyDict, ms, 0)

----------------------------------------------------------------------------
(* compute_idf *)

\* round(10 * log2(k)) for k = 1..16
Log2x10 == <<0, 10, 16, 20, 23, 26, 28, 30, 32, 33, 35, 36, 37, 38, 39, 40>>

\* math.log2(n_docs / (1 + term_df)), in tenths
Log2Ratio(n, d) == Log2x10[n] - Log2x10[d]

\* as KeepTerm, with term_df > min_df
KeepTermStrict(term_df, n, mdf, ratio) ==
    term_df * ratio[2] <= ratio[1] * n /\ term_df > mdf

\* term_df/n_docs <= max_df_ratio and term_df >= min_df
KeepTerm(term_df, n, mdf, ratio) ==
    term_df * ratio[2] <= ratio[1] * n /\ term_df >= mdf

RECURSIVE IdfLoop(_, _, _, _, _, _)
\* for term in inv_idx, over the terms not yet visited
IdfLoop(table, todo, inv, n, mdf, ratio) ==
    IF todo = {} THEN table
    ELSE LET term == CHOOSE t \in todo : TRUE
             term_df == Len(inv[term])
         IN  IdfLoop(IF KeepTerm(term_df, n, mdf, ratio)
                     THEN table @@ (term :> Log2Ratio(n, 1 + term_df))
                     ELSE table,
                     todo \ {term}, inv, n, mdf, ratio)

compute_idf(inv, n, mdf, ratio) == IdfLoop(EmptyDict, DOMAIN inv, inv, n, mdf, ratio)

----------------------------------------------------------------------------
(* compute_doc_norms *)

RECURSIVE NormPostings(_, _, _, _)
\* for doc, tf in term_docs: norms[doc] += (tf*score)**2
NormPostings(nrm, term_docs, score, k) ==
    IF k > Len(term_docs) THEN nrm
    ELSE LET doc == term_docs[k][1]
             tf == term_docs[k][2]
         IN  NormPostings([nrm EXCEPT ![doc] = @ + (tf * score) * (tf * score)],
                          term_docs, score, k + 1)

RECURSIVE NormLoop(_, _, _, _)
\* for term in idf
NormLoop(nrm, todo, index, table) ==
    IF todo = {} THEN nrm
    ELSE LET term == CHOOSE t \in todo : TRUE
         IN  NormLoop(NormPostings(nrm, index[term], table[term], 1),
                      todo \ {term}, index, table)

\* the radicands of the returned np.sqrt(norms)
compute_doc_norms(index, table, n) ==
    NormLoop([d \in 0..(n - 1) |-> 0], DOMAIN table, index, table)

----------------------------------------------------------------------------
(* Similarities: <<num, den>> stands for num / sqrt(den) *)

\* doc_scores[doc] / norms[doc]
Sim(score, den) == <<score, den>>

IsNaN(x) == x[1] = 0 /\ x[2] = 0

IsInf(x) == x[1] > 0 /\ x[2] = 0

RECURSIVE FracLess(_, _, _, _)
\* p/q < r/s for p, r >= 0 and q, s > 0, by continued fractions
FracLess(p, q, r, s) ==
    LET a == p \div q
        b == r \div s
        pr == p % q
        rr == r % s
    IN  IF a # b THEN a < b
        ELSE IF rr = 0 THEN FALSE
        ELSE IF pr = 0 THEN TRUE
        ELSE FracLess(s, rr, q, pr)

\* the float comparison x < y; every comparison with nan is false
Less(x, y) ==
    /\ ~IsNaN(x)
    /\ ~IsNaN(y)
    /\ IF IsInf(x) THEN FALSE
       ELSE IF IsInf(y) THEN TRUE
       ELSE FracLess(x[1] * x[1], x[2], y[1] * y[1], y[2])

----------------------------------------------------------------------------
(* sorted(cossim, key=lambda x: x[0], reverse=True): a stable sort, modelled *)
(* as an insertion sort.  With nan keys the place of the nan entries is the  *)
(* insertion sort's; without them the result is the one stable order.        *)

RECURSIVE InsertPos(_, _, _)
\* where x goes in the sorted prefix: left of the trailing entries smaller than x
InsertPos(sorted, x, j) ==
    IF j >= 1 /\ Less(sorted[j][1], x[1]) THEN InsertPos(sorted, x, j - 1)
    ELSE j + 1

InsertDesc(sorted, x) ==
    LET p == InsertPos(sorted, x, Len(sorted))
    IN  SubSeq(sorted, 1, p - 1) \o <<x>> \o SubSeq(sorted, p, Len(sorted))

RECURSIVE SortedDescFrom(_, _, _)
SortedDescFrom(sorted, s, k) ==
    IF k > Len(s) THEN sorted
    ELSE SortedDescFrom(InsertDesc(sorted, s[k]), s, k + 1)

SortedDesc(s) == SortedDescFrom(<<>>, s, 1)

----------------------------------------------------------------------------
(* accumulate_dot_scores: a dict is [keys: insertion order, val: values] *)

RECURSIVE ScorePostingsOnce(_, _, _, _, _)
RECURSIVE ScorePostings(_, _, _, _, _)
\* as ScorePostings, with the idf weight applied once
ScorePostingsOnce(ds, postings, w, count, k) ==
    IF k > Len(postings) THEN ds
    ELSE LET doc == postings[k][1]
             tf == postings[k][2]
             add == tf * w * count
         IN  ScorePostingsOnce(IF doc \notin DOMAIN ds.val
                               THEN [keys |-> Append(ds.keys, doc),
                                     val |-> ds.val @@ (doc :> add)]
                               ELSE [keys |-> ds.keys,
                                     val |-> [ds.val EXCEPT ![doc] = @ + add]],
                               postings, w, count, k + 1)

\* for (doc, tf) in index[query_word]
ScorePostings(ds, postings, w, count, k) ==
    IF k > Len(postings) THEN ds
    ELSE LET doc == postings[k][1]
             tf == postings[k][2]
             add == tf * w * count * w
         IN  ScorePostings(IF doc \notin DOMAIN ds.val
                           THEN [keys |-> Append(ds.keys, doc),
                                 val |-> ds.val @@ (doc :> add)]
                           ELSE [keys |-> ds.keys,
                                 val |-> [ds.val EXCEPT ![doc] = @ + add]],
                           postings, w, count, k + 1)

RECURSIVE ScoreWords(_, _, _, _, _)
\* for query_word in query_word_counts
ScoreWords(ds, qwc, index, table, k) ==
    IF k > Len(qwc.keys) THEN ds
    ELSE LET query_word == qwc.keys[k]
         IN  ScoreWords(ScorePostings(ds, index[query_word], table[query_word],
                                      qwc.val[query_word], 1),
                        qwc, index, table, k + 1)

accumulate_dot_scores(qwc, index, table) ==
    ScoreWords([keys |-> <<>>, val |-> EmptyDict], qwc, index, table, 1)

----------------------------------------------------------------------------
(* compute_cossim_for_webnovel *)

\* Counter(xs)[t]
Count(t, xs) == Cardinality({i \in DOMAIN xs : xs[i] = t})

\* dict(Counter(webnovel_unique_toks))
WordCounts(uniq) == [keys |-> uniq, val |-> [t \in Range(uniq) |-> Count(t, uniq)]]

\* del d[term]
DictDel(d, term) ==
    [keys |-> SelectSeq(d.keys, LAMBDA t : t # term),
     val |-> [t \in DOMAIN d.val \ {term} |-> d.val[t]]]

RECURSIVE QueryLoop(_, _, _, _)
\* for term in webnovel_unique_toks: st = [norm, counts]
QueryLoop(st, uniq, table, k) ==
    IF k > Len(uniq) THEN st
    ELSE LET term == uniq[k]
         IN  QueryLoop(
                 IF term \in DOMAIN table /\ term \in DOMAIN st.counts.val
                 THEN [norm |-> st.norm + (st.counts.val[term] * table[term])
                                          * (st.counts.val[term] * table[term]),
                       counts |-> st.counts]
                 ELSE IF term \notin DOMAIN table /\ term \in DOMAIN st.counts.val
                      THEN [norm |-> st.norm, counts |-> DictDel(st.counts, term)]
                      ELSE st,
                 uniq, table, k + 1)

\* cossim, before sorting: one entry per key of doc_scores, in its order
Cossim(ds, norm, fanfic_norms) ==
    [i \in 1..Len(ds.keys) |->
        <<Sim(ds.val[ds.keys[i]], norm * fanfic_norms[ds.keys[i]]), ds.keys[i]>>]

\* webnovel_word_counts as it is when score_func is called
QueryWordCounts(uniq, table) ==
    QueryLoop([norm |-> 0, counts |-> WordCounts(uniq)], uniq, table, 1).counts

\* as compute_cossim_for_webnovel, without the [:10]
compute_cossim_uncut(uniq, index, table, fanfic_norms) ==
    LET q == QueryLoop([norm |-> 0, counts |-> WordCounts(uniq)], uniq, table, 1)
        doc_scores == accumulate_dot_scores(q.counts, index, table)
        cossim == Cossim(doc_scores, q.norm, fanfic_norms)
    IN  SortedDesc(cossim)

\* uniq is list(set(webnovel_toks)), in the order the set happened to give
compute_cossim_for_webnovel(uniq, index, table, fanfic_norms) ==
    LET q == QueryLoop([norm |-> 0, counts |-> WordCounts(uniq)], uniq, table, 1)
        doc_scores == accumulate_dot_scores(q.counts, index, table)
        cossim == Cossim(doc_scores, q.norm, fanfic_norms)
    IN  Take(SortedDesc(cossim), K)

----------------------------------------------------------------------------
(* tokenize: a text is a sequence of characters, a token too *)

UpperChars == <<"A", "B", "C", "D", "E", "F", "G", "H", "I", "J", "K", "L", "M",
                "N", "O", "P", "Q", "R", "S", "T", "U", "V", "W", "X", "Y", "Z">>

LowerChars == <<"a", "b", "c", "d", "e", "f", "g", "h", "i", "j", "k", "l", "m",
                "n", "o", "p", "q", "r", "s", "t", "u", "v", "w", "x", "y", "z">>

LowerOf == [u \in Range(UpperChars) |->
               LowerChars[CHOOSE i \in DOMAIN UpperChars : UpperChars[i] = u]]

\* str.lower(), character by character
LowerChar(c) == IF c \in DOMAIN LowerOf THEN LowerOf[c] ELSE c

Lower(text) == [i \in DOMAIN text |-> LowerChar(text[i])]

RECURSIVE Findall(_, _, _, _)
\* re.findall("[A-Za-z]+", text) on a lower-cased text: the maximal runs of letters
Findall(text, k, run, out) ==
    LET closed == IF run = <<>> THEN out ELSE Append(out, run)
    IN  IF k > Len(text) THEN closed
        ELSE IF text[k] \in Range(LowerChars)
             THEN Findall(text, k + 1, Append(run, text[k]), out)
             ELSE Findall(text, k + 1, <<>>, closed)

\* some of sklearn's ENGLISH_STOP_WORDS
stop_words == {<<"a">>, <<"b", "e">>, <<"t", "o">>, <<"t", "h", "e">>}

tokenize(text) ==
    SelectSeq(Findall(Lower(text), 1, <<>>, <<>>), LAMBDA token : token \notin stop_words)

\* d[key] = value
DictSet(d, key, value) == [k \in DOMAIN d \cup {key} |-> IF k = key THEN value ELSE d[k]]

\* d.setdefault(key, value)
DictSetDefault(d, key, value) == IF key \in DOMAIN d THEN d ELSE DictSet(d, key, value)

----------------------------------------------------------------------------
(* tokenize_fanfics, tokenize_webnovels: st = [to_index, to_id, out], the two *)
(* module-level tables and tokenized_descriptions                            *)

\* as FanficRecord, but an id that is already mapped keeps its index
FanficRecordKeepFirst(st, fanfic_dict, counter) ==
    [out |-> Append(st.out, [id |-> fanfic_dict.id,
                             tokenized_description |-> tokenize(fanfic_dict.description)]),
     to_index |-> DictSetDefault(st.to_index, fanfic_dict.id, counter),
     to_id |-> DictSet(st.to_id, counter, fanfic_dict.id)]

\* the body of the loop of tokenize_fanfics
FanficRecord(st, fanfic_dict, counter) ==
    [out |-> Append(st.out, [id |-> fanfic_dict.id,
                             tokenized_description |-> tokenize(fanfic_dict.description)]),
     to_index |-> DictSet(st.to_index, fanfic_dict.id, counter),
     to_id |-> DictSet(st.to_id, counter, fanfic_dict.id)]

RECURSIVE FanficLoop(_, _, _)
\* for fanfic_dict in input_fanfics, with counter records done
FanficLoop(st, input, counter) ==
    IF counter >= Len(input) THEN st
    ELSE FanficLoop(FanficRecord(st, input[counter + 1], counter), input, counter + 1)

tokenize_fanfics(to_index, to_id, input) ==
    FanficLoop([out |-> <<>>, to_index |-> to_index, to_id |-> to_id], input, 0)

\* the body of the loop of tokenize_webnovels
WebnovelRecord(st, webnovel_dict, counter) ==
    LET webnovel_title == webnovel_dict.titles[1]
    IN  [out |-> Append(st.out, [index |-> counter,
                                 tokenized_description |-> tokenize(webnovel_dict.description)]),
         to_index |-> DictSet(st.to_index, webnovel_title, counter),
         to_id |-> DictSet(st.to_id, counter, webnovel_title)]

RECURSIVE WebnovelLoop(_, _, _)
\* for webnovel_dict in input_webnovels, with counter records done
WebnovelLoop(st, input, counter) ==
    IF counter >= Len(input) THEN st
    ELSE WebnovelLoop(WebnovelRecord(st, input[counter + 1], counter), input, counter + 1)

tokenize_webnovels(to_index, to_id, input) ==
    WebnovelLoop([out |-> <<>>, to_index |-> to_index, to_id |-> to_id], input, 0)

----------------------------------------------------------------------------
(* Edit distance: strings are sequences of characters, position i of the *)
(* code's query[i - 1] is query[i] here.  The three cost callables that   *)
(* the functions take are always the module's insertion_cost,              *)
(* deletion_cost and substitution_cost, which are used directly.           *)

insertion_cost(message, j) == 1

deletion_cost(query, i) == 1

\* as substitution_cost, but equal characters cost a substitution too
substitution_cost_flat(query, message, i, j) == 1

substitution_cost(query, message, i, j) ==
    IF query[i] = message[j] THEN 0 ELSE 1

Min3(a, b, c) == Min(a, Min(b, c))

\* chart: cell (0, 0), then the first column, the first row and the
\* interior row by row, each cell from the cells filled before it
edit_matrix(query, message) ==
    LET m == Len(query) + 1
        n == Len(message) + 1
        chart[cell \in (0..(m - 1)) \X (0..(n - 1))] ==
            LET i == cell[1]
                j == cell[2]
            IN  IF i = 0 /\ j = 0 THEN 0
                ELSE IF j = 0 THEN chart[<<i - 1, 0>>] + deletion_cost(query, i)
                ELSE IF i = 0 THEN chart[<<0, j - 1>>] + insertion_cost(message, j)
                ELSE Min3(chart[<<i - 1, j>>] + deletion_cost(query, i),
                          chart[<<i, j - 1>>] + insertion_cost(message, j),
                          chart[<<i - 1, j - 1>>] + substitution_cost(query, message, i, j))
    IN  chart

edit_distance(query, message) ==
    LET q == Lower(query)
        msg == Lower(message)
        edit_d_matrix == edit_matrix(q, msg)
    IN  edit_d_matrix[<<Len(q), Len(msg)>>]

\* result.sort(key=lambda tup: tup[0]): a stable sort, as an insertion sort
RECURSIVE InsertPosAsc(_, _, _)
InsertPosAsc(sorted, x, j) ==
    IF j >= 1 /\ x[1] < sorted[j][1] THEN InsertPosAsc(sorted, x, j - 1)
    ELSE j + 1

InsertAsc(sorted, x) ==
    LET p == InsertPosAsc(sorted, x, Len(sorted))
    IN  SubSeq(sorted, 1, p - 1) \o <<x>> \o SubSeq(sorted, p, Len(sorted))

RECURSIVE SortedAscFrom(_, _, _)
SortedAscFrom(sorted, s, k) ==
    IF k > Len(s) THEN sorted
    ELSE SortedAscFrom(InsertAsc(sorted, s[k]), s, k + 1)

SortedAsc(s) == SortedAscFrom(<<>>, s, 1)

\* the code up to its first return: every candidate with its distance,
\* sorted; result[:10] is only printed
edit_distance_search(query, candidates) ==
    SortedAsc([k \in DOMAIN candidates |->
                  <<edit_distance(query, candidates[k].text), candidates[k].text>>])

----------------------------------------------------------------------------
(* Inputs *)

Terms == {"a", "b"}

QueryTerms == Terms \cup {"zz"}

Docs == SeqsUpTo(Terms, MaxToks)

\* the example of build_inverted_index's docstring
DocstringMsgs == << <<"to", "be", "or", "not", "to", "be">>,
                    <<"do", "be", "do", "be", "do">> >>

\* a corpus with a frequent, a middling and a rare term
MixedMsgs == << <<"a", "b">>, <<"a", "b">>, <<"a", "c">> >>

Corpora == SeqsUpTo(Docs, MaxDocs) \cup {DocstringMsgs, MixedMsgs}

\* many short documents, for the cut at K: k documents about a, then j about b
RankCorpus(k, j) == [d \in 1..(k + j) |-> IF d <= k THEN <<"a">> ELSE <<"b">>]

RankCorpora == UNION {{RankCorpus(k, n - k) : k \in 0..n} : n \in 0..MaxRankDocs}

\* <<min_df, max_df_ratio>>: the default ratio 0.95 with min_df 0, 1, 2, and
\* min_df 1 with the ratios 1 and 1.5
Thresholds == {<<0, <<19, 20>>>>, <<1, <<19, 20>>>>, <<2, <<19, 20>>>>,
               <<1, <<1, 1>>>>, <<1, <<3, 2>>>>}

Queries == SeqsUpTo(QueryTerms, MaxQueryToks)

----------------------------------------------------------------------------
(* The pipeline of main() *)

\* nothing has been tokenized in this process
TokIdle ==
    /\ fic_id_to_index = EmptyDict
    /\ index_to_fic_id = EmptyDict
    /\ webnovel_title_to_index = EmptyDict
    /\ index_to_webnovel_title = EmptyDict
    /\ input_fanfics = <<>>
    /\ input_webnovels = <<>>
    /\ fanfics_tokenized = <<>>
    /\ webnovels_tokenized = <<>>
    /\ fanfic_calls = 0
    /\ webnovel_calls = 0

\* no edit distance has been asked for
EdIdle ==
    /\ ed_pc = "start"
    /\ ed_query = <<>>
    /\ ed_message = <<>>
    /\ ed_msgs = <<>>
    /\ ed_dist = 0
    /\ ed_result = <<>>

\* no query has been scored
ScoreIdle ==
    /\ query_word_counts = [keys |-> <<>>, val |-> EmptyDict]
    /\ raw_scores = [keys |-> <<>>, val |-> EmptyDict]

\* build_sims_cos has not been called
SimsIdle ==
    /\ sims_webnovels = <<>>
    /\ sims_orders = <<>>
    /\ webnovel_sims = EmptyDict

InitWith(corpora) ==
    /\ TokIdle
    /\ EdIdle
    /\ ScoreIdle
    /\ SimsIdle
    /\ pc = "start"
    /\ msgs \in corpora
    /\ inv_idx = EmptyDict
    /\ min_df = 10
    /\ max_df_ratio = <<19, 20>>
    /\ idf = EmptyDict
    /\ norms = EmptyDict
    /\ webnovel_toks = <<>>
    /\ unique_toks = <<>>
    /\ result = <<>>

Init == InitWith(Corpora)

BuildInvertedIndex ==
    /\ pc = "start"
    /\ inv_idx' = build_inverted_index(msgs)
    /\ pc' = "indexed"
    /\ UNCHANGED <<msgs, min_df, max_df_ratio, idf, norms, webnovel_toks, unique_toks, result>>
    /\ UNCHANGED <<tokVars, edVars, scoreVars, simsVars>>

ComputeIdf(mdf, ratio) ==
    /\ pc = "indexed"
    /\ min_df' = mdf
    /\ max_df_ratio' = ratio
    /\ idf' = compute_idf(inv_idx, Len(msgs), mdf, ratio)
    /\ pc' = "idf"
    /\ UNCHANGED <<msgs, inv_idx, norms, webnovel_toks, unique_toks, result>>
    /\ UNCHANGED <<tokVars, edVars, scoreVars, simsVars>>

ComputeDocNorms ==
    /\ pc = "idf"
    /\ norms' = compute_doc_norms(inv_idx, idf, Len(msgs))
    /\ pc' = "norms"
    /\ UNCHANGED <<msgs, inv_idx, min_df, max_df_ratio, idf, webnovel_toks, unique_toks, result>>
    /\ UNCHANGED <<tokVars, edVars, scoreVars, simsVars>>

ComputeCossim(toks, uniq) ==
    /\ pc = "norms"
    /\ webnovel_toks' = toks
    /\ unique_toks' = uniq
    /\ result' = compute_cossim_for_webnovel(uniq, inv_idx, idf, norms)
    /\ query_word_counts' = QueryWordCounts(uniq, idf)
    /\ raw_scores' = accumulate_dot_scores(QueryWordCounts(uniq, idf), inv_idx, idf)
    /\ pc' = "queried"
    /\ UNCHANGED <<msgs, inv_idx, min_df, max_df_ratio, idf, norms>>
    /\ UNCHANGED <<tokVars, edVars, simsVars>>

Next ==
    \/ BuildInvertedIndex
    \/ \E th \in Thresholds : ComputeIdf(th[1], th[2])
    \/ ComputeDocNorms
    \/ \E toks \in Queries : \E uniq \in Orders(Range(toks)) : ComputeCossim(toks, uniq)

Spec == Init /\ [][Next]_vars

\* the same pipeline over many short documents
InitTopK == InitWith(RankCorpora)

SpecTopK == InitTopK /\ [][Next]_vars

----------------------------------------------------------------------------
(* Properties of the pipeline *)

DocIds == 0..(Len(msgs) - 1)

Indexed == pc \in {"indexed", "idf", "norms", "queried"}

IdfDone == pc \in {"idf", "norms", "queried"}

\* the number of times term t occurs in document d
Occurrences(t, d) == Cardinality({i \in DOMAIN msgs[d + 1] : msgs[d + 1][i] = t})

CorpusTerms == UNION {Range(msgs[d + 1]) : d \in DocIds}

\* the reference documents that share an in-vocabulary term with the query
SharingDocs ==
    {d \in DocIds : Range(msgs[d + 1]) \cap Range(webnovel_toks) \cap DOMAIN idf # {}}

\* min_df <= 0, or max_df_ratio outside (0, 1]
Misconfigured(mdf, ratio) ==
    \/ mdf <= 0
    \/ ratio[1] <= 0
    \/ ratio[1] > ratio[2]

\* C1: no similarity in the result of compute_cossim_for_webnovel was
\* computed by dividing by a zero norm: a document whose norm (or whose
\* query's norm) is zero is left out of the ranking (stated for valid
\* thresholds).
C1_ZeroNormExcluded ==
    (pc = "queried" /\ ~Misconfigured(min_df, max_df_ratio)) =>
        \A i \in DOMAIN result : result[i][1][2] # 0

\* C2: the result of compute_cossim_for_webnovel has exactly
\* min(K, number of documents sharing an in-vocabulary term with the query)
\* entries, never more than K, and none when no term is shared.
C2_TopKLength ==
    pc = "queried" =>
        /\ Len(result) = Min(K, Cardinality(SharingDocs))
        /\ Len(result) <= K
        /\ (SharingDocs = {} => result = <<>>)

\* more than K documents share a term with the query and the result was cut
C2_Witness ==
    /\ pc = "queried"
    /\ Cardinality(SharingDocs) > K
    /\ Len(result) = K

\* C3: the ranking does not depend on the order in which the query's
\* deduplicated token set is iterated: every iteration order gives the
\* list that was returned (stated for valid thresholds and where no
\* similarity is nan).
C3_OrderIndependent ==
    (/\ pc = "queried"
     /\ ~Misconfigured(min_df, max_df_ratio)
     /\ \A i \in DOMAIN result : ~IsNaN(result[i][1])) =>
        \A uniq \in Orders(Range(webnovel_toks)) :
            compute_cossim_for_webnovel(uniq, inv_idx, idf, norms) = result

\* C4: every postings list of the built index is strictly increasing in
\* document index.
C4_PostingsAscending ==
    Indexed =>
        \A t \in DOMAIN inv_idx :
            \A i \in 1..(Len(inv_idx[t]) - 1) :
                inv_idx[t][i][1] < inv_idx[t][i + 1][1]

\* a term with two postings, one of them counted twice
C4_Witness ==
    /\ pc = "indexed"
    /\ \E t \in DOMAIN inv_idx :
          /\ Len(inv_idx[t]) >= 2
          /\ \E i \in DOMAIN inv_idx[t] : inv_idx[t][i][2] >= 2

\* C5: a term is a key of the index iff it occurs in some document, and
\* (d, tf) is in its postings list iff it occurs exactly tf >= 1 times in
\* document d; the docstring example gives be -> [(0,2),(1,2)], not -> [(0,1)].
C5_ExactCounts ==
    Indexed =>
        /\ DOMAIN inv_idx = CorpusTerms
        /\ \A t \in DOMAIN inv_idx : \A i \in DOMAIN inv_idx[t] :
              /\ inv_idx[t][i][1] \in DocIds
              /\ inv_idx[t][i][2] >= 1
              /\ inv_idx[t][i][2] = Occurrences(t, inv_idx[t][i][1])
        /\ \A t \in CorpusTerms : \A d \in DocIds :
              Occurrences(t, d) >= 1 =>
                  <<d, Occurrences(t, d)>> \in Range(inv_idx[t])
        /\ (msgs = DocstringMsgs =>
              /\ inv_idx["be"] = << <<0, 2>>, <<1, 2>> >>
              /\ inv_idx["not"] = << <<0, 1>> >>)

\* the index of the docstring example has been built
C5_Witness ==
    /\ pc = "indexed"
    /\ msgs = DocstringMsgs
    /\ "be" \in DOMAIN inv_idx

\* C6: the keys of the IDF table are exactly the index terms whose
\* document frequency df satisfies min_df <= df and df / n_docs <= max_df_ratio.
C6_IdfKeys ==
    IdfDone =>
        DOMAIN idf =
            {t \in DOMAIN inv_idx :
                /\ min_df <= Len(inv_idx[t])
                /\ Len(inv_idx[t]) * max_df_ratio[2] <= max_df_ratio[1] * Len(msgs)}

\* one term kept, one pruned for being too rare and one for being too frequent
C6_Witness ==
    /\ pc = "idf"
    /\ DOMAIN idf # {}
    /\ \E t \in DOMAIN inv_idx \ DOMAIN idf : Len(inv_idx[t]) < min_df
    /\ \E t \in DOMAIN inv_idx \ DOMAIN idf :
          Len(inv_idx[t]) * max_df_ratio[2] > max_df_ratio[1] * Len(msgs)

\* C9: compute_idf returns no table for misconfigured thresholds.
C9_MisconfigRejected ==
    IdfDone => ~Misconfigured(min_df, max_df_ratio)

----------------------------------------------------------------------------
(* Calls of the two tokenizing functions in one process *)

MaxRecords == 2
MaxCalls == 2

FicIds == {11, 12}

Titles == {<<"T1">>, <<"T2", "T1">>}

Descriptions == {<<"B", "e", " ", "a", "b">>, <<"b", "2", "b">>}

FanficInputs == SeqsUpTo([id : FicIds, description : Descriptions], MaxRecords)

WebnovelInputs == SeqsUpTo([titles : Titles, description : {<<"b", "2", "b">>}], MaxRecords)

InitTok ==
    /\ TokIdle
    /\ EdIdle
    /\ InitWith({<<>>})

TokenizeFanfics(input) ==
    /\ fanfic_calls + webnovel_calls < MaxCalls
    /\ LET r == tokenize_fanfics(fic_id_to_index, index_to_fic_id, input)
       IN  /\ fic_id_to_index' = r.to_index
           /\ index_to_fic_id' = r.to_id
           /\ fanfics_tokenized' = r.out
    /\ input_fanfics' = input
    /\ fanfic_calls' = fanfic_calls + 1
    /\ UNCHANGED <<webnovel_title_to_index, index_to_webnovel_title, input_webnovels,
                   webnovels_tokenized, webnovel_calls>>
    /\ UNCHANGED <<pipeVars, edVars, scoreVars, simsVars>>

TokenizeWebnovels(input) ==
    /\ fanfic_calls + webnovel_calls < MaxCalls
    /\ LET r == tokenize_webnovels(webnovel_title_to_index, index_to_webnovel_title, input)
       IN  /\ webnovel_title_to_index' = r.to_index
           /\ index_to_webnovel_title' = r.to_id
           /\ webnovels_tokenized' = r.out
    /\ input_webnovels' = input
    /\ webnovel_calls' = webnovel_calls + 1
    /\ UNCHANGED <<fic_id_to_index, index_to_fic_id, input_fanfics,
                   fanfics_tokenized, fanfic_calls>>
    /\ UNCHANGED <<pipeVars, edVars, scoreVars, simsVars>>

NextTok ==
    \/ \E input \in FanficInputs : TokenizeFanfics(input)
    \/ \E input \in WebnovelInputs : TokenizeWebnovels(input)

SpecTok == InitTok /\ [][NextTok]_vars

\* the external identifiers of the records of the last calls, in input order
FicKeys == [i \in DOMAIN input_fanfics |-> input_fanfics[i].id]

TitleKeys == [i \in DOMAIN input_webnovels |-> input_webnovels[i].titles[1]]

\* the last position of keys that carries the identifier of position i
LastWith(keys, i) ==
    CHOOSE j \in DOMAIN keys :
        /\ keys[j] = keys[i]
        /\ \A k \in DOMAIN keys : keys[k] = keys[i] => k <= j

\* the two tables are mutually inverse bijections between 0..n-1 and the
\* identifiers of the n records
InverseBijections(to_index, to_id, keys) ==
    /\ DOMAIN to_id = 0..(Len(keys) - 1)
    /\ DOMAIN to_index = Range(keys)
    /\ \A i \in DOMAIN keys :
          /\ to_id[i - 1] = keys[i]
          /\ to_index[to_id[i - 1]] = i - 1
    /\ \A x \in DOMAIN to_index : to_id[to_index[x]] = x

\* each index maps to its record's identifier and each identifier to the
\* last index that carries it
LastIndexWins(to_index, to_id, keys) ==
    /\ 0..(Len(keys) - 1) \subseteq DOMAIN to_id
    /\ Range(keys) \subseteq DOMAIN to_index
    /\ \A i \in DOMAIN keys :
          /\ to_id[i - 1] = keys[i]
          /\ to_index[keys[i]] = LastWith(keys, i) - 1

\* C10 as stated: after tokenize_fanfics (tokenize_webnovels) ran on n
\* records the two tables are mutually inverse bijections between 0..n-1
\* and the records' identifiers, also with repeated identifiers and after
\* earlier calls.
C10_InverseBijections ==
    /\ fanfic_calls > 0 =>
          InverseBijections(fic_id_to_index, index_to_fic_id, FicKeys)
    /\ webnovel_calls > 0 =>
          InverseBijections(webnovel_title_to_index, index_to_webnovel_title, TitleKeys)

\* C10 as amended: index_to_fic_id[i] is the id of the i-th record and
\* fic_id_to_index[id] is the last index whose record carries id; the key
\* sets are exactly 0..n-1 and the records' ids after the first call
\* (likewise for first titles).
C10_LastIndexWins ==
    /\ fanfic_calls > 0 =>
          /\ LastIndexWins(fic_id_to_index, index_to_fic_id, FicKeys)
          /\ fanfic_calls = 1 =>
                /\ DOMAIN index_to_fic_id = 0..(Len(input_fanfics) - 1)
                /\ DOMAIN fic_id_to_index = Range(FicKeys)
    /\ webnovel_calls > 0 =>
          /\ LastIndexWins(webnovel_title_to_index, index_to_webnovel_title, TitleKeys)
          /\ webnovel_calls = 1 =>
                /\ DOMAIN index_to_webnovel_title = 0..(Len(input_webnovels) - 1)
                /\ DOMAIN webnovel_title_to_index = Range(TitleKeys)

\* a second call of tokenize_fanfics, on two records with the same id,
\* after a call that mapped another id
C10_Witness ==
    /\ fanfic_calls = 2
    /\ Len(input_fanfics) = 2
    /\ input_fanfics[1].id = input_fanfics[2].id
    /\ DOMAIN fic_id_to_index # {input_fanfics[1].id}

----------------------------------------------------------------------------
(* Edit distance requests *)

MaxStrLen == 3
MaxCandidates == 11

EdChars == {"a", "b", "A"}

EdStrings == SeqsUpTo(EdChars, MaxStrLen)

kitten == <<"k", "i", "t", "t", "e", "n">>

sitting == <<"s", "i", "t", "t", "i", "n", "g">>

abc == <<"a", "b", "c">>

ExamplePairs == {<<kitten, sitting>>, <<<<>>, abc>>, <<abc, abc>>}

SearchTexts == {<<"a">>, <<"b">>}

SearchQueries == {<<"a">>, <<"c">>}

SearchLists == SeqsUpTo([text : SearchTexts], MaxCandidates)

InitEd ==
    /\ TokIdle
    /\ ScoreIdle
    /\ SimsIdle
    /\ pc = "start"
    /\ msgs = <<>>
    /\ inv_idx = EmptyDict
    /\ min_df = 10
    /\ max_df_ratio = <<19, 20>>
    /\ idf = EmptyDict
    /\ norms = EmptyDict
    /\ webnovel_toks = <<>>
    /\ unique_toks = <<>>
    /\ result = <<>>
    /\ ed_pc = "start"
    /\ ed_dist = 0
    /\ ed_result = <<>>
    /\ \/ /\ \E pair \in (EdStrings \X EdStrings) \cup ExamplePairs :
                /\ ed_query = pair[1]
                /\ ed_message = pair[2]
          /\ ed_msgs = <<>>
       \/ /\ ed_query \in SearchQueries
          /\ ed_message = <<>>
          /\ ed_msgs \in SearchLists

EditDistance ==
    /\ ed_pc = "start"
    /\ ed_dist' = edit_distance(ed_query, ed_message)
    /\ ed_pc' = "dist"
    /\ UNCHANGED <<ed_query, ed_message, ed_msgs, ed_result>>
    /\ UNCHANGED <<pipeVars, tokVars, scoreVars, simsVars>>

EditDistanceSearch ==
    /\ ed_pc = "start"
    /\ ed_result' = edit_distance_search(ed_query, ed_msgs)
    /\ ed_pc' = "searched"
    /\ UNCHANGED <<ed_query, ed_message, ed_msgs, ed_dist>>
    /\ UNCHANGED <<pipeVars, tokVars, scoreVars, simsVars>>

NextEd ==
    \/ EditDistance
    \/ EditDistanceSearch

SpecEd == InitEd /\ [][NextEd]_vars

\* the strings one single-character insertion, deletion or substitution
\* away from s, over the characters in chars
OneEdit(s, chars) ==
    {SubSeq(s, 1, i - 1) \o SubSeq(s, i + 1, Len(s)) : i \in DOMAIN s}
    \cup {SubSeq(s, 1, i) \o <<c>> \o SubSeq(s, i + 1, Len(s)) :
             i \in 0..Len(s), c \in chars}
    \cup {[s EXCEPT ![i] = c] : i \in DOMAIN s, c \in chars}

RECURSIVE EditsNeeded(_, _, _, _)
\* the least number of single-character edits that reach target from one of
\* the strings in reached, which are k edits away from the start
EditsNeeded(reached, target, chars, k) ==
    IF target \in reached THEN k
    ELSE EditsNeeded(reached \cup UNION {OneEdit(s, chars) : s \in reached},
                     target, chars, k + 1)

Levenshtein(s, t) == EditsNeeded({s}, t, Range(s) \cup Range(t), 0)

\* C7: with the default costs edit_distance is the Levenshtein distance of
\* the lower-cased strings: the least number of single-character edits
\* (counted here for strings of up to MaxStrLen + 1 characters), and
\* kitten/sitting = 3, ''/abc = 3, abc/abc = 0.
C7_Levenshtein ==
    ed_pc = "dist" =>
        /\ (Len(ed_query) <= MaxStrLen + 1 /\ Len(ed_message) <= MaxStrLen + 1) =>
              ed_dist = Levenshtein(Lower(ed_query), Lower(ed_message))
        /\ (ed_query = kitten /\ ed_message = sitting) => ed_dist = 3
        /\ (ed_query = <<>> /\ ed_message = abc) => ed_dist = 3
        /\ (ed_query = abc /\ ed_message = abc) => ed_dist = 0

\* the distance of kitten and sitting has been computed
C7_Witness ==
    /\ ed_pc = "dist"
    /\ ed_query = kitten
    /\ ed_message = sitting
    /\ ed_dist = 3

\* C8: edit_distance_search returns at most K entries: the closest
\* candidates, each with its distance, ascending by distance, candidates
\* of equal distance in input order.
C8_AtMostKClosest ==
    ed_pc = "searched" =>
        /\ Len(ed_result) = Min(K, Len(ed_msgs))
        /\ \A i \in DOMAIN ed_result :
              ed_result[i][1] = edit_distance(ed_query, ed_result[i][2])
        /\ \A i \in 1..(Len(ed_result) - 1) : ed_result[i][1] <= ed_result[i + 1][1]
        /\ \A d \in {ed_result[i][1] : i \in DOMAIN ed_result} :
              LET got == SelectSeq(ed_result, LAMBDA e : e[1] = d)
                  given == SelectSeq(ed_msgs,
                               LAMBDA c : edit_distance(ed_query, c.text) = d)
              IN  /\ Len(got) <= Len(given)
                  /\ \A i \in DOMAIN got : got[i][2] = given[i].text

----------------------------------------------------------------------------
(* The raw scores *)

\* the terms of document d that are in the query and in the IDF table
SharedTerms(d) == Range(msgs[d + 1]) \cap Range(webnovel_toks) \cap DOMAIN idf

RECURSIVE RawScore(_, _)
\* the sum over the terms t in todo of tf(d, t) * idf(t) * 1 * idf(t)
RawScore(todo, d) ==
    IF todo = {} THEN 0
    ELSE LET t == CHOOSE x \in todo : TRUE
         IN  Occurrences(t, d) * idf[t] * 1 * idf[t] + RawScore(todo \ {t}, d)

----------------------------------------------------------------------------
(* build_sims_cos.  Its two callables are always accumulate_dot_scores and *)
(* compute_cossim_for_webnovel (main); orders[i + 1] is the order in which *)
(* list(set(...)) gives the tokens of webnovels_tokenized[i].               *)

RECURSIVE SimsLoopByPosition(_, _, _, _, _, _, _)
\* as SimsLoop, but the result is stored under the position in the list
SimsLoopByPosition(sims, webnovels, orders, index, table, fanfic_norms, i) ==
    IF i >= Len(webnovels) THEN sims
    ELSE LET cossims == compute_cossim_for_webnovel(orders[i + 1], index, table, fanfic_norms)
         IN  SimsLoopByPosition(DictSet(sims, i, cossims),
                                webnovels, orders, index, table, fanfic_norms, i + 1)

RECURSIVE SimsLoop(_, _, _, _, _, _, _)
\* for i in range(n_webnovels), from i on
SimsLoop(sims, webnovels, orders, index, table, fanfic_norms, i) ==
    IF i >= Len(webnovels) THEN sims
    ELSE LET webnovel == webnovels[i + 1]
             cossims == compute_cossim_for_webnovel(orders[i + 1], index, table, fanfic_norms)
         IN  SimsLoop(DictSet(sims, webnovel.index, cossims),
                      webnovels, orders, index, table, fanfic_norms, i + 1)

build_sims_cos(webnovels, orders, index, table, fanfic_norms) ==
    SimsLoop(EmptyDict, webnovels, orders, index, table, fanfic_norms, 0)

MaxWebnovels == 2

SimDocs == {<<"a">>, <<"b">>, <<"a", "b">>}

SimCorpora == SeqsUpTo(SimDocs, MaxDocs)

SimQueries == {<<"a">>, <<"a", "b">>, <<"zz">>}

\* lists of tokenized web-novels with pairwise different index fields, in
\* any order
SimLists ==
    {w \in SeqsUpTo([index : 0..(MaxWebnovels - 1), tokenized_description : SimQueries],
                    MaxWebnovels) :
        \A i, j \in DOMAIN w : w[i].index = w[j].index => i = j}

\* one iteration order for the token set of each web-novel
SimOrders(webnovels) ==
    {o \in [DOMAIN webnovels -> UNION {Orders(Range(q)) : q \in SimQueries}] :
        \A i \in DOMAIN webnovels :
            o[i] \in Orders(Range(webnovels[i].tokenized_description))}

InitSims == InitWith(SimCorpora)

BuildSimsCos(webnovels, orders) ==
    /\ pc = "norms"
    /\ sims_webnovels' = webnovels
    /\ sims_orders' = orders
    /\ webnovel_sims' = build_sims_cos(webnovels, orders, inv_idx, idf, norms)
    /\ pc' = "sims"
    /\ UNCHANGED <<msgs, inv_idx, min_df, max_df_ratio, idf, norms,
                   webnovel_toks, unique_toks, result>>
    /\ UNCHANGED <<tokVars, edVars, scoreVars>>

NextSims ==
    \/ BuildInvertedIndex
    \/ \E th \in Thresholds : ComputeIdf(th[1], th[2])
    \/ ComputeDocNorms
    \/ \E webnovels \in SimLists : \E orders \in SimOrders(webnovels) :
          BuildSimsCos(webnovels, orders)

SpecSims == InitSims /\ [][NextSims]_vars

\* the structures built anew from the reference documents
FreshIndex == build_inverted_index(msgs)

FreshIdf == compute_idf(FreshIndex, Len(msgs), min_df, max_df_ratio)

FreshNorms == compute_doc_norms(FreshIndex, FreshIdf, Len(msgs))

\* the list s in the order given by the permutation p of its positions
Permuted(s, p) == [i \in DOMAIN s |-> s[p[i]]]

\* C12: build_sims_cos leaves the index, the IDF table and the norms as
\* they were built; the result stored under each query's index is the
\* result of that query alone against the freshly built structures, in
\* whatever order the queries are processed; the mapping has one entry per
\* query index.
C12_SimsIndependent ==
    pc = "sims" =>
        /\ inv_idx = FreshIndex
        /\ idf = FreshIdf
        /\ norms = FreshNorms
        /\ DOMAIN webnovel_sims = {sims_webnovels[i].index : i \in DOMAIN sims_webnovels}
        /\ Cardinality(DOMAIN webnovel_sims) = Len(sims_webnovels)
        /\ \A i \in DOMAIN sims_webnovels :
              webnovel_sims[sims_webnovels[i].index] =
                  compute_cossim_for_webnovel(sims_orders[i], FreshIndex, FreshIdf, FreshNorms)
        /\ \A p \in Orders(DOMAIN sims_webnovels) :
              build_sims_cos(Permuted(sims_webnovels, p), Permuted(sims_orders, p),
                             inv_idx, idf, norms) = webnovel_sims

\* two queries processed against their index order, with different,
\* non-empty results
C12_Witness ==
    /\ pc = "sims"
    /\ Len(sims_webnovels) = 2
    /\ sims_webnovels[1].index > sims_webnovels[2].index
    /\ webnovel_sims[sims_webnovels[1].index] # <<>>
    /\ webnovel_sims[sims_webnovels[2].index] # <<>>
    /\ webnovel_sims[sims_webnovels[1].index] # webnovel_sims[sims_webnovels[2].index]

====
